---- MODULE Spec2Model ----
(***************************************************************************)
(* A model of the e-commerce backend: the order handlers and their stock   *)
(* reconciliation against products (controllers/orderController.js), the   *)
(* product handlers that write stock (controllers/authController.js) and   *)
(* the coupon handlers (controllers/couponController.js) and the banner    *)
(* handlers with the banner schema's hook, the category handlers           *)
(* (controllers/categoryController.js), signup and the customer handlers.  *)
(*                                                                         *)
(* Spec       the order handlers, each run to completion.                  *)
(* SpecHist   the same, with the history of each order's stock kept.       *)
(* SpecShop   the order handlers with the product handlers.                *)
(* SpecRace   the order handlers interleaved at their database calls.      *)
(* SpecCoupon the coupon handlers, each run to completion.                 *)
(* SpecValid  the coupon's isValid method on stored coupons.               *)
(* SpecLife   the coupon handlers over the life of a coupon.               *)
(* SpecBanner the banner handlers, each run to completion.                 *)
(* SpecHook   the banner's save hook and currentStatus on stored banners.  *)
(* SpecTree   buildCategoryTree on flat lists of categories.               *)
(* SpecCategory the category handlers with the products' categories.       *)
(* SpecEdge   the order handlers on edge values of quantity and date.      *)
(* SpecUser   signup and the customer handlers.                            *)
(***************************************************************************)
EXTENDS Integers, FiniteSets, Sequences, TLC

VARIABLES
  products,   \* the Product collection: id -> document
  orders,     \* the Order collection: id -> document
  resp,       \* the last response sent: handler, status code, message
  hist,       \* history of each stored order: its reservation and releases
  inflight,   \* SpecRace: each request in flight, its position and locals
  started,    \* SpecRace: the number of requests received
  coupons,    \* the Coupon collection: id -> document
  banners,    \* the Banner collection: id -> document
  categories, \* the Category collection: id -> document
  users,      \* the User collection: id -> document
  now         \* the clock (Date.now()), in ticks

vars == <<products, orders, resp, hist, inflight, started, coupons, banners, categories, users, now>>

----------------------------------------------------------------------------
(* Bounds *)

MaxStock == 5     \* stock values explored: 0..MaxStock
MaxQty == 4       \* quantities explored: up to MaxQty
MaxReleases == 2  \* the release history counts up to MaxReleases
TicksPerDay == 2  \* the clock's resolution: instants per calendar day
MaxFields == 2    \* fields present in the body of an update request
MaxRequests == 4  \* SpecRace: requests received in a run

ProductIds == {"p1", "p2"}
CouponIds == {"c1", "c2"}
BannerIds == {"b1"}
CategoryIds == {"k1", "k2", "k3"}
UserIds == {"u1", "u2"}
OrderIds == {"o1", "o2"}
SeqOrderIds == {"o1"}   \* the ids Spec stores orders under
Reqs == {"r1", "r2"}    \* SpecRace: the requests that run at the same time

Null == "null"

Has(b, f) == f \in DOMAIN b

----------------------------------------------------------------------------
(* Request numbers.  A JSON number of a request body is kept as the digits  *)
(* its text starts with (int) and what follows them: nothing, a fraction   *)
(* of one half (half: 1.5), or, for a number below 0.000001, which         *)
(* JavaScript writes with an exponent (2e-7), the exponent (tiny).         *)
(* Comparing a number and parseInt of it differ as they do in JavaScript.  *)

Num(i, half) == [int |-> i, half |-> half, tiny |-> FALSE]

\* a number d * 10^-7, 1 <= d <= 9
Tiny(d) == [int |-> d, half |-> FALSE, tiny |-> TRUE]

\* !quantity (orderController.js:36): a number is falsy iff it is 0
Falsy(q) == q.int = 0 /\ ~q.half /\ ~q.tiny

\* productDoc.stock < quantity (orderController.js:66), stock an integer
LessThanNum(stock, q) ==
  IF q.tiny THEN stock <= 0
  ELSE IF q.half /\ q.int >= 0 THEN stock <= q.int
  ELSE stock < q.int

\* parseInt(quantity): the digits the number's text starts with
ParseInt(q) == q.int

QtyInputs ==
  {Num(i, FALSE) : i \in 0..MaxQty} \cup {Num(1, TRUE), Tiny(2)}

----------------------------------------------------------------------------
(* Documents *)

NoProduct ==
  [exists |-> FALSE, stock |-> 0, inStock |-> FALSE, sku |-> Null, category |-> Null]
ProductDoc(s, f) ==
  [exists |-> TRUE, stock |-> s, inStock |-> f, sku |-> Null, category |-> Null]

\* usageLimit is the set of the limit, empty when the coupon has none (null)
NoCoupon ==
  [exists |-> FALSE, code |-> Null, startDate |-> 0,
   validityDays |-> Num(0, FALSE), endDate |-> 0, status |-> Null,
   usageLimit |-> {}, usedCount |-> 0]

\* no banner document under that id
NoBanner ==
  [exists |-> FALSE, days |-> Num(0, FALSE), startDate |-> 0, endDate |-> 0,
   status |-> Null]

\* no category document under that id
NoCategory == [exists |-> FALSE, name |-> Null, parent |-> Null, isActive |-> FALSE]

\* the ObjectId a 24-digit hexadecimal string is cast to: the digits, in
\* lower case
ObjectId(s) ==
  CASE s = "K1" -> "k1"
    [] s = "K2" -> "k2"
    [] s = "K3" -> "k3"
    [] OTHER -> s

\* Category.findById(id): the stored category of that id, if any
FindCategory(cats, id) ==
  {k \in CategoryIds : k = ObjectId(id) /\ cats[k].exists}

\* no user document under that id
NoUser == [exists |-> FALSE, email |-> Null, role |-> Null, name |-> Null]

OrderStatuses == {"pending", "in-progress", "completed", "cancelled"}

\* an id under which no order is stored
FreeOrder == [st |-> "free", orderNumber |-> "", product |-> Null, quantity |-> 0, status |-> ""]
Stored(o) == orders[o].st = "stored"

\* toUpperCase / the schema's uppercase setter on the order numbers used here
ToUpperCase(s) ==
  CASE s = "a1" -> "A1"
    [] s = "b2" -> "B2"
    [] s = "A1" -> "A1"
    [] s = "B2" -> "B2"
OrderNumberInputs == {"a1"}
RaceOrderNumberInputs == {"a1", "b2"}

\* a response, with the handler and what of its request the properties read
Response(op, req, code, msg) == [op |-> op, req |-> req, code |-> code, msg |-> msg]

----------------------------------------------------------------------------
(* Dates: an instant is a count of clock ticks *)

\* today.setHours(0, 0, 0, 0): the first instant of t's day
StartOfDay(t) == t - (t % TicksPerDay)

\* the instant the order handlers run at, and the delivery dates requested:
\* the last instant of yesterday and the first of today
OrderNow == TicksPerDay + 1
DeliveryInputs == {StartOfDay(OrderNow) - 1, StartOfDay(OrderNow)}

\* the instant of a date is before the start of the day of t
BeforeToday(date, t) == date < StartOfDay(t)

\* a deliveryDate that is not falsy (the number 0 is) is before today
\* (orderController.js:44-48 and 179-184)
DeliveryDateRejected(body, t) ==
  Has(body, "deliveryDate") /\ body.deliveryDate # 0 /\ BeforeToday(body.deliveryDate, t)

----------------------------------------------------------------------------
(* Request bodies: a body is a record of the fields the request carries *)

Restrict(f, S) == [x \in S |-> f[x]]

Bodies(full, required) ==
  { Restrict(b, S \cup required) :
      b \in full,
      S \in {T \in SUBSET (DOMAIN (CHOOSE x \in full : TRUE)) : Cardinality(T) <= MaxFields} }

CreateOrderBodies ==
  Bodies([orderNumber : OrderNumberInputs,
          product : ProductIds,
          quantity : QtyInputs,
          status : {"cancelled", "shipped"},
          deliveryDate : DeliveryInputs],
         {"orderNumber", "quantity"})

\* quantities of an update are whole numbers: the model keeps stock integral
UpdateOrderBodies ==
  Bodies([product : {"p2"},
          quantity : {Num(i, FALSE) : i \in {0, 1, MaxQty}},
          status : {"pending", "completed", "cancelled", "shipped"},
          deliveryDate : DeliveryInputs],
         {})

----------------------------------------------------------------------------
(* Stock reconciliation, as the order handlers do it on a loaded document *)

\* Reserve taking one item whatever the quantity
ReserveOne(doc, q) ==
  LET s == doc.stock - 1
  IN [doc EXCEPT !.stock = s, !.inStock = IF s = 0 THEN FALSE ELSE @]

\* productDoc.stock -= parseInt(quantity); if stock === 0, inStock = false
\* (orderController.js:73-77)
Reserve(doc, q) ==
  LET s == doc.stock - ParseInt(q)
  IN [doc EXCEPT !.stock = s, !.inStock = IF s = 0 THEN FALSE ELSE @]

\* productDoc.stock += order.quantity; productDoc.inStock = true
\* (orderController.js:205-206 and 249-250)
Release(doc, qty) == [doc EXCEPT !.stock = @ + qty, !.inStock = TRUE]

\* SaveProduct writing only while the stored stock is the one loaded
SaveProductIfCurrent(prods, p, loaded, doc) ==
  IF prods[p].stock # loaded.stock
    THEN prods
    ELSE [prods EXCEPT ![p] =
            [@ EXCEPT !.stock = doc.stock, !.inStock = doc.inStock]]

\* productDoc.save(): writes the paths whose value differs from the one loaded
SaveProduct(prods, p, loaded, doc) ==
  [prods EXCEPT ![p] =
     [@ EXCEPT !.stock = IF doc.stock # loaded.stock THEN doc.stock ELSE @,
               !.inStock = IF doc.inStock # loaded.inStock THEN doc.inStock ELSE @]]

\* if (product): the body names a product (orderController.js:56)
HasProduct(body) == Has(body, "product") /\ body.product # Null

\* CancelReleases without the test of the stored status
CancelReleasesAnyStatus(body, old) ==
  /\ Has(body, "status")
  /\ body.status = "cancelled"
  /\ old.product # Null

\* updateOrder's guard of the release (orderController.js:202)
CancelReleases(body, old) ==
  /\ Has(body, "status")
  /\ body.status = "cancelled"
  /\ old.status # "cancelled"
  /\ old.product # Null

\* deleteOrder's guard of the release (orderController.js:246)
DeleteReleases(old) ==
  old.status # "cancelled" /\ old.status # "completed" /\ old.product # Null

----------------------------------------------------------------------------
(* The Order collection's writes *)

CreateOrderReq(body) ==
  [product |-> IF HasProduct(body) THEN body.product ELSE Null,
   quantity |-> body.quantity,
   early |-> Has(body, "deliveryDate") /\ BeforeToday(body.deliveryDate, OrderNow)]

UpdateOrderReq(o, body) ==
  [order |-> o, status |-> IF Has(body, "status") THEN body.status ELSE "",
   early |-> Has(body, "deliveryDate") /\ BeforeToday(body.deliveryDate, OrderNow)]

NumberTaken(ords, n, except) ==
  \E o \in OrderIds \ except : ords[o].st = "stored" /\ ords[o].orderNumber = n

\* the document createOrder hands to Order.create (orderController.js:82-106)
NewOrder(body) ==
  [st |-> "stored",
   orderNumber |-> ToUpperCase(body.orderNumber),
   product |-> IF HasProduct(body) THEN body.product ELSE Null,
   quantity |-> ParseInt(body.quantity),
   status |-> IF Has(body, "status") THEN body.status ELSE "pending"]

\* Order.create throws: a schema validator fails (quantity min 1, status enum)
\* or the unique index on orderNumber does
InsertFails(ords, doc) ==
  \/ doc.quantity < 1
  \/ doc.status \notin OrderStatuses
  \/ NumberTaken(ords, doc.orderNumber, {})

\* findByIdAndUpdate(id, body, {runValidators: true}) throws: a validator of
\* a field of the body fails
UpdateFails(body) ==
  \/ Has(body, "quantity") /\ body.quantity.int < 1
  \/ Has(body, "status") /\ body.status \notin OrderStatuses
  \/ Has(body, "deliveryDate") /\ BeforeToday(body.deliveryDate, OrderNow)

\* the order after findByIdAndUpdate sets the body's fields
UpdatedOrder(old, body) ==
  [st |-> "stored",
   orderNumber |-> old.orderNumber,
   product |-> IF Has(body, "product") THEN body.product ELSE old.product,
   quantity |-> IF Has(body, "quantity") THEN body.quantity.int ELSE old.quantity,
   status |-> IF Has(body, "status") THEN body.status ELSE old.status]


----------------------------------------------------------------------------
(* Product handlers (controllers/authController.js) *)

\* the stock and inStock fields a PUT /api/products/:id may carry
UpdateProductBodies ==
  Bodies([stock : 0..MaxStock, inStock : BOOLEAN], {})

\* UpdatedProduct setting the stock of a body without one to 0
UpdatedProductResetsStock(doc, body) ==
  [doc EXCEPT !.stock = IF Has(body, "stock") THEN body.stock ELSE 0,
              !.inStock = IF Has(body, "inStock") THEN body.inStock ELSE @,
              !.category = IF Has(body, "category") THEN ObjectId(body.category) ELSE @]

\* Product.findByIdAndUpdate(id, req.body): sets the fields of the body
UpdatedProduct(doc, body) ==
  [doc EXCEPT !.stock = IF Has(body, "stock") THEN body.stock ELSE @,
              !.inStock = IF Has(body, "inStock") THEN body.inStock ELSE @,
              !.category = IF Has(body, "category") THEN ObjectId(body.category) ELSE @]

UpdateProductReq(p, body) ==
  [product |-> p, stock |-> IF Has(body, "stock") THEN {body.stock} ELSE {}]

OrderFrame == UNCHANGED <<coupons, banners, categories, users, now>>

updateProduct(p, body) ==
  /\ IF ~products[p].exists
       THEN /\ resp' = Response("updateProduct", UpdateProductReq(p, body), 404, "Product not found")
            /\ UNCHANGED products
     ELSE IF Has(body, "category") /\ FindCategory(categories, body.category) = {}
       THEN /\ resp' = Response("updateProduct", UpdateProductReq(p, body), 400, "Invalid category ID")
            /\ UNCHANGED products
       ELSE /\ products' = [products EXCEPT ![p] = UpdatedProduct(@, body)]
            /\ resp' = Response("updateProduct", UpdateProductReq(p, body), 200, "Product updated successfully")
  /\ UNCHANGED <<orders, inflight, started>>
  /\ OrderFrame

deleteProduct(p) ==
  /\ IF ~products[p].exists
       THEN /\ resp' = Response("deleteProduct", [product |-> p], 404, "Product not found")
            /\ UNCHANGED products
       ELSE /\ products' = [products EXCEPT ![p] = NoProduct]
            /\ resp' = Response("deleteProduct", [product |-> p], 200, "Product deleted successfully")
  /\ UNCHANGED <<orders, inflight, started>>
  /\ OrderFrame

----------------------------------------------------------------------------
(* The steps of the order handlers between two database calls               *)
(* (controllers/orderController.js).  Each takes the collections it reads  *)
(* and gives what it writes and answers.                                   *)

\* createOrder up to productDoc.save() (orderController.js:36-77): the answer
\* if it returns early, otherwise the product document it is about to save
CreateOrderCheck(prods, body) ==
  IF ~Has(body, "orderNumber") \/ Falsy(body.quantity)
    THEN [pc |-> "done", code |-> 400, msg |-> "Missing required fields"]
  ELSE IF DeliveryDateRejected(body, OrderNow)
    THEN [pc |-> "done", code |-> 400, msg |-> "Delivery date must be today or a future date"]
  ELSE IF ~HasProduct(body)
    THEN [pc |-> "create"]
  ELSE IF ~prods[body.product].exists
    THEN [pc |-> "done", code |-> 404, msg |-> "Product not found"]
  ELSE IF LessThanNum(prods[body.product].stock, body.quantity)
    THEN [pc |-> "done", code |-> 400, msg |-> "Insufficient stock"]
  ELSE [pc |-> "save", loaded |-> prods[body.product],
        doc |-> Reserve(prods[body.product], body.quantity)]

\* Order.create (orderController.js:82-119): the answer
CreateOrderInsert(ords, body) ==
  IF InsertFails(ords, NewOrder(body))
    THEN [code |-> 400, msg |-> "Failed to create order"]
    ELSE [code |-> 201, msg |-> "Order created successfully"]

\* updateOrder up to the release (orderController.js:178-202)
UpdateOrderCheck(ords, o, body) ==
  IF DeliveryDateRejected(body, OrderNow)
    THEN [pc |-> "done", code |-> 400, msg |-> "Delivery date must be today or a future date"]
  ELSE IF ords[o].st # "stored"
    THEN [pc |-> "done", code |-> 404, msg |-> "Order not found"]
  ELSE IF CancelReleases(body, ords[o])
    THEN [pc |-> "product"]
  ELSE [pc |-> "update"]

\* Order.findByIdAndUpdate (orderController.js:211-228): the answer
UpdateOrderWrite(ords, o, body) ==
  IF UpdateFails(body)
    THEN [code |-> 400, msg |-> "Failed to update order"]
    ELSE [code |-> 200, msg |-> "Order updated successfully"]

\* deleteOrder up to the release (orderController.js:236-246)
DeleteOrderCheck(ords, o) ==
  IF ords[o].st # "stored"
    THEN [pc |-> "done", code |-> 404, msg |-> "Order not found"]
  ELSE IF DeleteReleases(ords[o])
    THEN [pc |-> "product"]
  ELSE [pc |-> "delete"]

----------------------------------------------------------------------------
(* Order handlers, each run to completion *)

createOrder(o, body) ==
  LET chk == CreateOrderCheck(products, body)
      ins == CreateOrderInsert(orders, body)
  IN
  /\ UNCHANGED <<inflight, started>>
  /\ OrderFrame
  /\ IF chk.pc = "done"
       THEN /\ resp' = Response("createOrder", CreateOrderReq(body), chk.code, chk.msg)
            /\ UNCHANGED <<products, orders>>
       ELSE /\ resp' = Response("createOrder", CreateOrderReq(body), ins.code, ins.msg)
            /\ IF chk.pc = "save"
                 THEN /\ chk.doc.stock <= MaxStock
                      /\ products' = SaveProduct(products, body.product, chk.loaded, chk.doc)
                 ELSE UNCHANGED products
            /\ IF ins.code = 201
                 THEN /\ orders[o].st = "free"
                      /\ orders' = [orders EXCEPT ![o] = NewOrder(body)]
                 ELSE UNCHANGED orders

updateOrder(o, body) ==
  LET chk == UpdateOrderCheck(orders, o, body)
      wr == UpdateOrderWrite(orders, o, body)
      oldOrder == orders[o]
      p == oldOrder.product
  IN
  /\ UNCHANGED <<inflight, started>>
  /\ OrderFrame
  /\ IF chk.pc = "done"
       THEN /\ resp' = Response("updateOrder", UpdateOrderReq(o, body), chk.code, chk.msg)
            /\ UNCHANGED <<products, orders>>
       ELSE /\ resp' = Response("updateOrder", UpdateOrderReq(o, body), wr.code, wr.msg)
            /\ IF chk.pc = "product" /\ products[p].exists
                 THEN /\ Release(products[p], oldOrder.quantity).stock <= MaxStock
                      /\ products' = SaveProduct(products, p, products[p],
                                                 Release(products[p], oldOrder.quantity))
                 ELSE UNCHANGED products
            /\ IF wr.code = 200
                 THEN orders' = [orders EXCEPT ![o] = UpdatedOrder(oldOrder, body)]
                 ELSE UNCHANGED orders

deleteOrder(o) ==
  LET chk == DeleteOrderCheck(orders, o)
      order == orders[o]
      p == order.product
  IN
  /\ UNCHANGED <<inflight, started>>
  /\ OrderFrame
  /\ IF chk.pc = "done"
       THEN /\ resp' = Response("deleteOrder", [order |-> o], chk.code, chk.msg)
            /\ UNCHANGED <<products, orders>>
       ELSE /\ resp' = Response("deleteOrder", [order |-> o], 200, "Order deleted successfully")
            /\ IF chk.pc = "product" /\ products[p].exists
                 THEN /\ Release(products[p], order.quantity).stock <= MaxStock
                      /\ products' = SaveProduct(products, p, products[p],
                                                 Release(products[p], order.quantity))
                 ELSE UNCHANGED products
            /\ orders' = [orders EXCEPT ![o] = FreeOrder]

----------------------------------------------------------------------------
(* The specification of the order handlers run one at a time *)

NoResponse == Response("", <<>>, 0, "")

IdleReq ==
  [pc |-> "idle", body |-> <<>>, order |-> "", old |-> FreeOrder,
   product |-> Null, loaded |-> NoProduct, doc |-> NoProduct, stale |-> FALSE]

NoHistory == [product |-> Null, base |-> 0, releases |-> 0, alone |-> TRUE, lost |-> FALSE]

InitStocks == {1, MaxStock}

Init ==
  /\ \E s \in InitStocks :
       products = [p \in ProductIds |-> IF p = "p1" THEN ProductDoc(s, TRUE) ELSE NoProduct]
  /\ orders = [o \in OrderIds |-> FreeOrder]
  /\ resp = NoResponse
  /\ hist = [o \in OrderIds |-> NoHistory]
  /\ inflight = [r \in Reqs |-> IdleReq]
  /\ started = 0
  /\ coupons = [c \in CouponIds |-> NoCoupon]
  /\ banners = [b \in BannerIds |-> NoBanner]
  /\ categories = [k \in CategoryIds |-> NoCategory]
  /\ users = [u \in UserIds |-> NoUser]
  /\ now = OrderNow

Handlers ==
  \/ \E o \in SeqOrderIds, body \in CreateOrderBodies : createOrder(o, body)
  \/ \E o \in SeqOrderIds, body \in UpdateOrderBodies : updateOrder(o, body)
  \/ \E o \in SeqOrderIds : deleteOrder(o)

Next == Handlers /\ UNCHANGED hist

Spec == Init /\ [][Next]_vars

----------------------------------------------------------------------------
(* The same handlers with the history of each stored order kept beside the *)
(* collections: the product its creation reserved from and the stock that  *)
(* product had then (base), the releases applied for it since, and whether *)
(* no other request has written that product's stock since (alone).        *)

\* the order a request of the step wrote a product for, if it is stored
ReleasedNow(o) ==
  /\ resp'.op \in {"updateOrder", "deleteOrder"}
  /\ resp'.req.order = o
  /\ products' # products

CreatedNow(o) ==
  resp'.op = "createOrder" /\ orders[o].st = "free" /\ orders'[o].st = "stored"

TrackedHistory(o) ==
  IF CreatedNow(o)
    THEN [product |-> orders'[o].product,
          base |-> IF orders'[o].product = Null THEN 0 ELSE products[orders'[o].product].stock,
          releases |-> 0, alone |-> TRUE, lost |-> FALSE]
  ELSE IF orders'[o].st = "free"
    THEN NoHistory
  ELSE IF ReleasedNow(o)
    THEN [hist[o] EXCEPT !.releases = IF @ < MaxReleases THEN @ + 1 ELSE @]
  ELSE IF hist[o].product # Null /\ products'[hist[o].product] # products[hist[o].product]
    THEN [hist[o] EXCEPT !.alone = FALSE]
  ELSE hist[o]

Track == hist' = [o \in OrderIds |-> TrackedHistory(o)]

\* the requests SpecHist draws from: an order of a product, an update of one
\* of the order's status, quantity and product
HistCreateBodies ==
  {b \in CreateOrderBodies : DOMAIN b = {"orderNumber", "product", "quantity"}}
HistUpdateBodies ==
  {b \in UpdateOrderBodies : DOMAIN b \in {{"status"}, {"quantity"}, {"product"}}}

HistHandlers ==
  \/ \E o \in SeqOrderIds, body \in HistCreateBodies : createOrder(o, body)
  \/ \E o \in SeqOrderIds, body \in HistUpdateBodies : updateOrder(o, body)
  \/ \E o \in SeqOrderIds : deleteOrder(o)

NextHist == HistHandlers /\ Track

SpecHist == Init /\ [][NextHist]_vars

----------------------------------------------------------------------------
(* The specification of the order handlers with the product handlers *)

\* the order requests SpecShop draws from: an order of a product, a change of
\* status
ShopCreateBodies == HistCreateBodies
ShopUpdateBodies ==
  {b \in UpdateOrderBodies : DOMAIN b = {"status"}}

ShopHandlers ==
  \/ \E o \in SeqOrderIds, body \in ShopCreateBodies : createOrder(o, body)
  \/ \E o \in SeqOrderIds, body \in ShopUpdateBodies : updateOrder(o, body)
  \/ \E o \in SeqOrderIds : deleteOrder(o)
  \/ \E p \in ProductIds, body \in UpdateProductBodies : updateProduct(p, body)
  \/ \E p \in ProductIds : deleteProduct(p)

NextShop == ShopHandlers /\ UNCHANGED hist

SpecShop == Init /\ [][NextShop]_vars

----------------------------------------------------------------------------
(* The order handlers interleaved: a step is what a handler does from one   *)
(* database call to the next (every await of orderController.js).          *)
(* inflight[r] holds the position of request r and its local variables:    *)
(* the body, the order id, the order and the product document it loaded    *)
(* (loaded) and the document as it changed it (doc).  stale is history:    *)
(* another request saved the product after r loaded it.                    *)

RaceCreateBodies ==
  [orderNumber : RaceOrderNumberInputs,
   product : {"p1"},
   quantity : {Num(i, FALSE) : i \in {1, MaxQty - 1}}]

RaceUpdateBodies == [status : {"cancelled"}]

At(r, pc) == inflight[r].pc = pc

Goto(r, pc) == inflight' = [inflight EXCEPT ![r].pc = pc]

Finish(r) == inflight' = [inflight EXCEPT ![r] = IdleReq]

\* request r saves product p: the requests that loaded p and have not saved
\* it yet hold a stale document from now on
SavedBy(r, p, pc) ==
  [x \in Reqs |->
     IF x = r THEN [inflight[r] EXCEPT !.pc = pc]
     ELSE IF inflight[x].pc \in {"co_save", "uo_save", "do_save"} /\ inflight[x].product = p
       THEN [inflight[x] EXCEPT !.stale = TRUE]
     ELSE inflight[x]]

\* no request in flight is about order o
Unreferenced(o) == \A r \in Reqs : inflight[r].pc = "idle" \/ inflight[r].order # o

\* createOrder: the checks and Product.findById (orderController.js:36-77)
coFind(r, body) ==
  LET chk == CreateOrderCheck(products, body) IN
  /\ At(r, "idle")
  /\ started < MaxRequests
  /\ started' = started + 1
  /\ UNCHANGED <<products, orders, hist>>
  /\ OrderFrame
  /\ IF chk.pc = "done"
       THEN /\ resp' = Response("createOrder", CreateOrderReq(body), chk.code, chk.msg)
            /\ UNCHANGED inflight
     ELSE IF chk.pc = "create"
       THEN /\ inflight' = [inflight EXCEPT ![r] = [IdleReq EXCEPT !.pc = "co_create", !.body = body]]
            /\ UNCHANGED resp
     ELSE /\ inflight' = [inflight EXCEPT ![r] =
                 [IdleReq EXCEPT !.pc = "co_save", !.body = body, !.product = body.product,
                                 !.loaded = chk.loaded, !.doc = chk.doc]]
          /\ UNCHANGED resp

\* createOrder: productDoc.save() (orderController.js:79)
coSave(r) ==
  LET l == inflight[r] IN
  /\ At(r, "co_save")
  /\ l.doc.stock <= MaxStock
  /\ products' = SaveProduct(products, l.product, l.loaded, l.doc)
  /\ inflight' = SavedBy(r, l.product, "co_create")
  /\ UNCHANGED <<orders, resp, hist>>
  /\ UNCHANGED started
  /\ OrderFrame

\* createOrder: Order.create and the response (orderController.js:82-119)
coCreate(r, o) ==
  LET l == inflight[r]
      ins == CreateOrderInsert(orders, l.body)
  IN
  /\ At(r, "co_create")
  /\ resp' = Response("createOrder", CreateOrderReq(l.body), ins.code, ins.msg)
  /\ IF ins.code = 201
       THEN /\ orders[o].st = "free"
            /\ Unreferenced(o)
            /\ orders' = [orders EXCEPT ![o] = NewOrder(l.body)]
            /\ hist' = [hist EXCEPT ![o] =
                 [product |-> l.product, base |-> l.loaded.stock, releases |-> 0,
                  alone |-> TRUE, lost |-> l.stale]]
       ELSE UNCHANGED <<orders, hist>>
  /\ Finish(r)
  /\ UNCHANGED products
  /\ UNCHANGED started
  /\ OrderFrame

\* updateOrder: the date check and Order.findById (orderController.js:178-202)
uoFind(r, o, body) ==
  LET chk == UpdateOrderCheck(orders, o, body) IN
  /\ At(r, "idle")
  /\ started < MaxRequests
  /\ started' = started + 1
  /\ UNCHANGED <<products, orders, hist>>
  /\ OrderFrame
  /\ IF chk.pc = "done"
       THEN /\ resp' = Response("updateOrder", UpdateOrderReq(o, body), chk.code, chk.msg)
            /\ UNCHANGED inflight
       ELSE /\ inflight' = [inflight EXCEPT ![r] =
                 [IdleReq EXCEPT !.pc = IF chk.pc = "product" THEN "uo_product" ELSE "uo_update",
                                 !.body = body, !.order = o, !.old = orders[o]]]
            /\ UNCHANGED resp

\* the release of updateOrder and deleteOrder: Product.findById and the
\* change of the loaded document (orderController.js:203-206 and 247-250)
FindProduct(r, save, skip) ==
  LET l == inflight[r]
      p == l.old.product
  IN
  /\ inflight' = [inflight EXCEPT ![r] =
       IF products[p].exists
         THEN [l EXCEPT !.pc = save, !.product = p, !.loaded = products[p],
                        !.doc = Release(products[p], l.old.quantity)]
         ELSE [l EXCEPT !.pc = skip]]
  /\ UNCHANGED <<products, orders, resp, hist>>
  /\ UNCHANGED started
  /\ OrderFrame

\* the release: productDoc.save() (orderController.js:207 and 251)
SaveRelease(r, next) ==
  LET l == inflight[r] IN
  /\ l.doc.stock <= MaxStock
  /\ products' = SaveProduct(products, l.product, l.loaded, l.doc)
  /\ inflight' = SavedBy(r, l.product, next)
  /\ hist' = [hist EXCEPT ![l.order].releases = IF @ < MaxReleases THEN @ + 1 ELSE @]
  /\ UNCHANGED <<orders, resp>>
  /\ UNCHANGED started
  /\ OrderFrame

uoProduct(r) == At(r, "uo_product") /\ FindProduct(r, "uo_save", "uo_update")

uoSave(r) == At(r, "uo_save") /\ SaveRelease(r, "uo_update")

\* updateOrder: Order.findByIdAndUpdate and the response
\* (orderController.js:211-228); an order deleted meanwhile gives data: null
uoUpdate(r) ==
  LET l == inflight[r]
      wr == UpdateOrderWrite(orders, l.order, l.body)
  IN
  /\ At(r, "uo_update")
  /\ resp' = Response("updateOrder", UpdateOrderReq(l.order, l.body), wr.code, wr.msg)
  /\ orders' = IF wr.code = 200 /\ orders[l.order].st = "stored"
                 THEN [orders EXCEPT ![l.order] = UpdatedOrder(@, l.body)]
                 ELSE orders
  /\ Finish(r)
  /\ UNCHANGED <<products, hist>>
  /\ UNCHANGED started
  /\ OrderFrame

\* deleteOrder: Order.findById (orderController.js:236-246)
doFind(r, o) ==
  LET chk == DeleteOrderCheck(orders, o) IN
  /\ At(r, "idle")
  /\ started < MaxRequests
  /\ started' = started + 1
  /\ UNCHANGED <<products, orders, hist>>
  /\ OrderFrame
  /\ IF chk.pc = "done"
       THEN /\ resp' = Response("deleteOrder", [order |-> o], chk.code, chk.msg)
            /\ UNCHANGED inflight
       ELSE /\ inflight' = [inflight EXCEPT ![r] =
                 [IdleReq EXCEPT !.pc = IF chk.pc = "product" THEN "do_product" ELSE "do_delete",
                                 !.order = o, !.old = orders[o]]]
            /\ UNCHANGED resp

doProduct(r) == At(r, "do_product") /\ FindProduct(r, "do_save", "do_delete")

doSave(r) == At(r, "do_save") /\ SaveRelease(r, "do_delete")

\* deleteOrder: Order.findByIdAndDelete and the response
\* (orderController.js:255-260)
doDelete(r) ==
  LET l == inflight[r] IN
  /\ At(r, "do_delete")
  /\ resp' = Response("deleteOrder", [order |-> l.order], 200, "Order deleted successfully")
  /\ orders' = [orders EXCEPT ![l.order] = FreeOrder]
  /\ hist' = [hist EXCEPT ![l.order] = NoHistory]
  /\ Finish(r)
  /\ UNCHANGED products
  /\ UNCHANGED started
  /\ OrderFrame

NextRace ==
  \/ \E r \in Reqs, body \in RaceCreateBodies : coFind(r, body)
  \/ \E r \in Reqs : coSave(r)
  \/ \E r \in Reqs, o \in OrderIds : coCreate(r, o)
  \/ \E r \in Reqs, o \in OrderIds, body \in RaceUpdateBodies : uoFind(r, o, body)
  \/ \E r \in Reqs : uoProduct(r)
  \/ \E r \in Reqs : uoSave(r)
  \/ \E r \in Reqs : uoUpdate(r)
  \/ \E r \in Reqs, o \in OrderIds : doFind(r, o)
  \/ \E r \in Reqs : doProduct(r)
  \/ \E r \in Reqs : doSave(r)
  \/ \E r \in Reqs : doDelete(r)

SpecRace == Init /\ [][NextRace]_vars

----------------------------------------------------------------------------
(* The coupon handlers (controllers/couponController.js), run to completion. *)
(* A date is an instant in clock ticks; validityDays is kept as the request  *)
(* number it was given as where the handler stores it unparsed.              *)

MaxTicks == 1     \* SpecCoupon: ticks the clock advances

CouponStatuses == {"active", "inactive", "expired"}

\* Date.setDate(getDate() + days)
AddDays(t, days) == t + days * TicksPerDay

DiscountInputs == {-1, 50}

CouponDateInputs == {1}

CreateCouponBodies ==
  Bodies([code : {"a1", "b2"},
          discount : DiscountInputs,
          validityDays : {Num(0, FALSE), Num(1, FALSE), Num(1, TRUE), Tiny(2)},
          startDate : CouponDateInputs],
         {"code", "discount"})

UpdateCouponBodies ==
  Bodies([code : {"b2"},
          discount : {-1},
          validityDays : {Num(0, FALSE), Num(2, FALSE), Num(1, TRUE), Tiny(2)},
          startDate : CouponDateInputs,
          endDate : {OrderNow}],
         {})

CouponFrame == UNCHANGED <<products, orders, hist, inflight, started, banners, categories, users, now>>

\* discountNum < 0 || discountNum > 100
DiscountRejected(d) == d < 0 \/ d > 100

\* Coupon.findOne({ code }) / the unique index on code
CodeTaken(cps, code, except) ==
  \E c \in CouponIds \ except : cps[c].exists /\ cps[c].code = code

\* the fields of an updateCoupon request that its checks read, and its status
CouponReq(c, body) ==
  [coupon |-> c,
   body |-> Restrict(body, DOMAIN body \cap {"discount", "validityDays", "status"})]

\* the fields of a createCoupon request that its checks read
CreateCouponReq(c, body) ==
  [coupon |-> c,
   body |-> Restrict(body, DOMAIN body \cap {"code", "discount", "validityDays"})]

\* the document createCoupon hands to Coupon.create
NewCoupon(body, t) ==
  LET start == IF Has(body, "startDate") THEN body.startDate ELSE t
      daysNum == ParseInt(body.validityDays)
  IN  [exists |-> TRUE,
       code |-> ToUpperCase(body.code),
       startDate |-> start,
       validityDays |-> Num(daysNum, FALSE),
       endDate |-> AddDays(start, daysNum),
       status |-> IF Has(body, "status") THEN body.status ELSE "active",
       usageLimit |-> IF Has(body, "usageLimit") THEN body.usageLimit \ {0} ELSE {},
       usedCount |-> 0]

\* the schema's pre('save') hook
PreSave(doc) ==
  IF ~Falsy(doc.validityDays)
  THEN [doc EXCEPT !.endDate = AddDays(doc.startDate, doc.validityDays.int)]
  ELSE doc

createCoupon(c, body) ==
  /\ ~coupons[c].exists
  /\ CouponFrame
  /\ LET req == CreateCouponReq(c, body)
         answer(code, msg) ==
           /\ resp' = Response("createCoupon", req, code, msg)
           /\ UNCHANGED coupons
     IN  IF ~Has(body, "validityDays")
         THEN answer(400, "required")
         ELSE IF DiscountRejected(body.discount)
         THEN answer(400, "discount")
         ELSE IF ParseInt(body.validityDays) < 1
         THEN answer(400, "days")
         ELSE IF CodeTaken(coupons, ToUpperCase(body.code), {})
         THEN answer(400, "exists")
         ELSE IF NewCoupon(body, now).status \notin CouponStatuses
         THEN answer(400, "failed")
         ELSE /\ coupons' = [coupons EXCEPT ![c] = PreSave(NewCoupon(body, now))]
              /\ resp' = Response("createCoupon", req, 201, "created")

\* req.body as updateCoupon leaves it for findByIdAndUpdate
UpdateCouponBody(old, body) ==
  LET newStartDate == IF Has(body, "startDate") THEN body.startDate ELSE old.startDate
      newValidityDays == IF Has(body, "validityDays")
                         THEN ParseInt(body.validityDays)
                         ELSE ParseInt(old.validityDays)
      upper == IF Has(body, "code")
               THEN [body EXCEPT !.code = ToUpperCase(body.code)]
               ELSE body
  IN  IF Has(body, "startDate") \/ Has(body, "validityDays")
      THEN [f \in DOMAIN upper \cup {"endDate"} |->
              IF f = "endDate" THEN AddDays(newStartDate, newValidityDays) ELSE upper[f]]
      ELSE upper

\* findByIdAndUpdate(id, body): the fields of the body replace the stored ones
UpdatedCoupon(old, body) ==
  [f \in DOMAIN old |-> IF f \in DOMAIN body THEN body[f] ELSE old[f]]

\* the number q is less than 1
BelowOne(q) == q.tiny \/ q.int < 1

\* CouponUpdateFails without the validator of validityDays
CouponUpdateFailsNoDays(cps, c, body) ==
  \/ Has(body, "status") /\ body.status \notin CouponStatuses
  \/ Has(body, "code") /\ CodeTaken(cps, body.code, {c})
  \/ Has(body, "discount") /\ DiscountRejected(body.discount)
  \/ Has(body, "usageLimit") /\ \E n \in body.usageLimit : n < 0
  \/ Has(body, "usedCount") /\ body.usedCount < 0

\* what findByIdAndUpdate with runValidators rejects
CouponUpdateFails(cps, c, body) ==
  \/ Has(body, "status") /\ body.status \notin CouponStatuses
  \/ Has(body, "validityDays") /\ BelowOne(body.validityDays)
  \/ Has(body, "code") /\ CodeTaken(cps, body.code, {c})
  \/ Has(body, "discount") /\ DiscountRejected(body.discount)
  \/ Has(body, "usageLimit") /\ \E n \in body.usageLimit : n < 0
  \/ Has(body, "usedCount") /\ body.usedCount < 0

updateCoupon(c, body) ==
  /\ CouponFrame
  /\ LET req == CouponReq(c, body)
         old == coupons[c]
         sent == UpdateCouponBody(old, body)
         answer(code, msg) ==
           /\ resp' = Response("updateCoupon", req, code, msg)
           /\ UNCHANGED coupons
     IN  IF ~old.exists
         THEN answer(404, "not found")
         ELSE IF Has(body, "discount") /\ DiscountRejected(body.discount)
         THEN answer(400, "discount")
         ELSE IF Has(body, "validityDays") /\ ParseInt(body.validityDays) < 1
         THEN answer(400, "days")
         ELSE IF CouponUpdateFails(coupons, c, sent)
         THEN answer(400, "failed")
         ELSE /\ coupons' = [coupons EXCEPT ![c] = UpdatedCoupon(old, sent)]
              /\ resp' = Response("updateCoupon", req, 200, "updated")

\* the clock advances
Tick ==
  /\ now < OrderNow + MaxTicks
  /\ now' = now + 1
  /\ UNCHANGED <<products, orders, resp, hist, inflight, started, coupons, banners, categories, users>>

NextCoupon ==
  \/ \E c \in CouponIds, body \in CreateCouponBodies : createCoupon(c, body)
  \/ \E c \in CouponIds, body \in UpdateCouponBodies : updateCoupon(c, body)
  \/ Tick

InitCoupon == Init /\ products["p1"].stock = MaxStock

SpecCoupon == InitCoupon /\ [][NextCoupon]_vars

----------------------------------------------------------------------------
(* The coupon's methods (models/Coupon.js) *)

MaxUses == 2      \* usage limits and counts explored: 0..MaxUses

\* this.usageLimit && this.usedCount >= this.usageLimit
LimitReached(doc) ==
  \E n \in doc.usageLimit : n # 0 /\ doc.usedCount >= n

\* couponSchema.methods.isValid at the instant t
IsValid(doc, t) ==
  IF t < doc.startDate \/ t > doc.endDate THEN FALSE
  ELSE IF doc.status # "active" THEN FALSE
  ELSE IF LimitReached(doc) THEN FALSE
  ELSE TRUE

\* a call of coupon.isValid()
isValid(c) ==
  /\ coupons[c].exists
  /\ resp' = Response("isValid", [coupon |-> c, at |-> now], 200,
                      IF IsValid(coupons[c], now) THEN "true" ELSE "false")
  /\ UNCHANGED <<products, orders, hist, inflight, started, coupons, banners, categories, users, now>>

\* the coupons isValid is called on: one day long, starting around now
ValidCoupons ==
  { [exists |-> TRUE, code |-> "A1", startDate |-> s,
     validityDays |-> Num(1, FALSE), endDate |-> AddDays(s, 1), status |-> st,
     usageLimit |-> l, usedCount |-> u] :
      s \in (OrderNow - TicksPerDay - 1)..(OrderNow + 1),
      st \in CouponStatuses,
      l \in {{}} \cup {{n} : n \in 0..MaxUses},
      u \in 0..MaxUses }

InitValid ==
  /\ products = [p \in ProductIds |-> NoProduct]
  /\ orders = [o \in OrderIds |-> FreeOrder]
  /\ resp = NoResponse
  /\ hist = [o \in OrderIds |-> NoHistory]
  /\ inflight = [r \in Reqs |-> IdleReq]
  /\ started = 0
  /\ banners = [b \in BannerIds |-> NoBanner]
  /\ categories = [k \in CategoryIds |-> NoCategory]
  /\ users = [u \in UserIds |-> NoUser]
  /\ now = OrderNow
  /\ \E doc \in ValidCoupons :
       coupons = [c \in CouponIds |-> IF c = "c1" THEN doc ELSE NoCoupon]

NextValid ==
  \/ \E c \in CouponIds : isValid(c)
  \/ Tick

SpecValid == InitValid /\ [][NextValid]_vars

----------------------------------------------------------------------------
(* The coupon handlers over the life of a coupon: created, read by code as   *)
(* the clock advances, updated.                                              *)

\* Coupon.findOne({ code }): the id of the coupon with that code, if any
FindByCode(cps, code) == {c \in CouponIds : cps[c].exists /\ cps[c].code = code}

getCouponByCode(code) ==
  /\ CouponFrame
  /\ LET found == FindByCode(coupons, ToUpperCase(code))
         answer(c, status, msg) ==
           /\ resp' = Response("getCouponByCode", [code |-> code, coupon |-> c], status, msg)
           /\ UNCHANGED coupons
     IN  IF found = {}
         THEN answer(Null, 404, "Coupon not found")
         ELSE LET c == CHOOSE x \in found : TRUE
                  coupon == coupons[c]
              IN  IF now < coupon.startDate
                  THEN answer(c, 400, "Coupon is not yet active")
                  ELSE IF now > coupon.endDate
                  THEN /\ coupons' = [coupons EXCEPT ![c].status = "expired"]
                       /\ resp' = Response("getCouponByCode", [code |-> code, coupon |-> c],
                                           400, "Coupon has expired")
                  ELSE IF coupon.status # "active"
                  THEN answer(c, 400, "Coupon is not active")
                  ELSE IF LimitReached(coupon)
                  THEN answer(c, 400, "Coupon usage limit reached")
                  ELSE answer(c, 200, "")

LifeCreateBodies ==
  Bodies([code : {"a1"},
          discount : {50},
          validityDays : {Num(1, FALSE)},
          startDate : {1, OrderNow + TicksPerDay},
          usageLimit : {{1}}],
         {"code", "discount", "validityDays"})

LifeUpdateBodies ==
  Bodies([status : {"active", "inactive", "bogus"},
          startDate : {1},
          endDate : {OrderNow - 1, OrderNow + TicksPerDay},
          usedCount : 0..MaxUses],
         {})

NextLife ==
  \/ \E c \in CouponIds, body \in LifeCreateBodies : createCoupon(c, body)
  \/ \E c \in CouponIds, body \in LifeUpdateBodies : updateCoupon(c, body)
  \/ \E code \in {"a1", "b2"} : getCouponByCode(code)
  \/ Tick

SpecLife == InitCoupon /\ [][NextLife]_vars

----------------------------------------------------------------------------
(* The banner schema and its handlers *)

BannerStatuses == {"active", "inactive", "pending", "expired"}

BannerFrame ==
  UNCHANGED <<products, orders, hist, inflight, started, coupons, categories, users, now>>

\* BannerPreSave with an expiry that does not look at the status
BannerPreSaveExpiresAny(doc, t) ==
  LET first == IF doc.startDate <= t /\ doc.endDate >= t /\ doc.status = "pending"
               THEN [doc EXCEPT !.status = "active"]
               ELSE doc
  IN  IF first.endDate < t
      THEN [first EXCEPT !.status = "expired"]
      ELSE first

\* bannerSchema.pre('save') at the instant t: its two ifs, one after the other
BannerPreSave(doc, t) ==
  LET first == IF doc.startDate <= t /\ doc.endDate >= t /\ doc.status = "pending"
               THEN [doc EXCEPT !.status = "active"]
               ELSE doc
  IN  IF first.endDate < t /\ first.status = "active"
      THEN [first EXCEPT !.status = "expired"]
      ELSE first

\* CurrentStatus with a window that ends before endDate
CurrentStatusEndExcluded(doc, t) ==
  IF doc.endDate <= t THEN "expired"
  ELSE IF doc.startDate <= t THEN "active"
  ELSE "pending"

\* the virtual currentStatus at the instant t
CurrentStatus(doc, t) ==
  IF doc.endDate < t THEN "expired"
  ELSE IF doc.startDate <= t THEN "active"
  ELSE "pending"

CreateBannerBodies ==
  Bodies([startDate : {OrderNow - TicksPerDay - 1, OrderNow - TicksPerDay,
                       OrderNow + TicksPerDay},
          days : {Num(0, FALSE), Num(1, FALSE), Num(1, TRUE), Tiny(2)},
          image : {"img"},
          status : {"active", "inactive", "bogus"}],
         {"startDate", "days"})

UpdateBannerBodies ==
  Bodies([startDate : {OrderNow - TicksPerDay, OrderNow + TicksPerDay},
          days : {Num(0, FALSE), Num(2, FALSE), Num(1, TRUE), Tiny(2)},
          endDate : {OrderNow - 1},
          status : {"inactive", "bogus"}],
         {})

CreateBannerReq(b, body) ==
  [banner |-> b, body |-> Restrict(body, DOMAIN body \cap {"status"})]

UpdateBannerReq(b, body) ==
  [banner |-> b,
   body |-> Restrict(body, DOMAIN body \cap {"startDate", "days", "endDate"})]

\* the document createBanner hands to Banner.create
NewBanner(body) ==
  [exists |-> TRUE,
   days |-> Num(ParseInt(body.days), FALSE),
   startDate |-> body.startDate,
   endDate |-> AddDays(body.startDate, ParseInt(body.days)),
   status |-> IF Has(body, "status") THEN body.status ELSE "pending"]

\* what the schema's validators reject
BannerInvalid(doc) ==
  \/ BelowOne(doc.days)
  \/ doc.status \notin BannerStatuses

createBanner(b, body) ==
  /\ BannerFrame
  /\ ~banners[b].exists
  /\ LET req == CreateBannerReq(b, body)
         answer(code, msg) ==
           /\ resp' = Response("createBanner", req, code, msg)
           /\ UNCHANGED banners
     IN  IF Falsy(body.days)
         THEN answer(400, "Start date and number of days are required")
         ELSE IF ~Has(body, "image")
         THEN answer(400, "Banner image is required")
         ELSE IF BannerInvalid(NewBanner(body))
         THEN answer(400, "Failed to create banner")
         ELSE /\ banners' = [banners EXCEPT ![b] = BannerPreSave(NewBanner(body), now)]
              /\ resp' = Response("createBanner", req, 201, "Banner created successfully")

\* the body updateBanner hands to findByIdAndUpdate
UpdateBannerBody(body) ==
  IF Has(body, "startDate") /\ Has(body, "days") /\ ~Falsy(body.days)
  THEN [f \in DOMAIN body \cup {"endDate"} |->
          IF f = "endDate" THEN AddDays(body.startDate, ParseInt(body.days)) ELSE body[f]]
  ELSE body

\* findByIdAndUpdate(id, body): the fields of the body replace the stored ones
UpdatedBanner(old, body) ==
  [f \in DOMAIN old |-> IF f \in DOMAIN body THEN body[f] ELSE old[f]]

\* what findByIdAndUpdate with runValidators rejects
BannerUpdateFails(body) ==
  \/ Has(body, "days") /\ BelowOne(body.days)
  \/ Has(body, "status") /\ body.status \notin BannerStatuses

updateBanner(b, body) ==
  /\ BannerFrame
  /\ LET req == UpdateBannerReq(b, body)
         old == banners[b]
         sent == UpdateBannerBody(body)
         answer(code, msg) ==
           /\ resp' = Response("updateBanner", req, code, msg)
           /\ UNCHANGED banners
     IN  IF ~old.exists
         THEN answer(404, "Banner not found")
         ELSE IF BannerUpdateFails(sent)
         THEN answer(400, "Failed to update banner")
         ELSE /\ banners' = [banners EXCEPT ![b] = UpdatedBanner(old, sent)]
              /\ resp' = Response("updateBanner", req, 200, "Banner updated successfully")

NextBanner ==
  \/ \E b \in BannerIds, body \in CreateBannerBodies : createBanner(b, body)
  \/ \E b \in BannerIds, body \in UpdateBannerBodies : updateBanner(b, body)
  \/ Tick

SpecBanner == InitCoupon /\ [][NextBanner]_vars

----------------------------------------------------------------------------
(* The banner's save hook and its currentStatus, on stored banners *)

\* a save of the stored banner: the hook runs and the status is written
preSave(b) ==
  /\ BannerFrame
  /\ banners[b].exists
  /\ banners' = [banners EXCEPT ![b] = BannerPreSave(banners[b], now)]
  /\ resp' = Response("preSave", [banner |-> b, at |-> now, was |-> banners[b].status],
                      200, "saved")

\* a read of banner.currentStatus
currentStatus(b) ==
  /\ BannerFrame
  /\ banners[b].exists
  /\ resp' = Response("currentStatus", [banner |-> b, at |-> now], 200,
                      CurrentStatus(banners[b], now))
  /\ UNCHANGED banners

\* the banners the hook and the virtual are applied to
HookBanners ==
  { [exists |-> TRUE, days |-> Num(1, FALSE), startDate |-> s, endDate |-> e,
     status |-> st] :
      s \in (OrderNow - TicksPerDay)..(OrderNow + 1),
      e \in (OrderNow - TicksPerDay)..(OrderNow + TicksPerDay),
      st \in BannerStatuses }

InitHook ==
  /\ products = [p \in ProductIds |-> NoProduct]
  /\ orders = [o \in OrderIds |-> FreeOrder]
  /\ resp = NoResponse
  /\ hist = [o \in OrderIds |-> NoHistory]
  /\ inflight = [r \in Reqs |-> IdleReq]
  /\ started = 0
  /\ coupons = [c \in CouponIds |-> NoCoupon]
  /\ categories = [k \in CategoryIds |-> NoCategory]
  /\ users = [u \in UserIds |-> NoUser]
  /\ now = OrderNow
  /\ \E doc \in HookBanners : banners = [b \in BannerIds |-> doc]

NextHook ==
  \/ \E b \in BannerIds : preSave(b)
  \/ \E b \in BannerIds : currentStatus(b)
  \/ Tick

SpecHook == InitHook /\ [][NextHook]_vars

----------------------------------------------------------------------------
(* The category tree (controllers/categoryController.js) *)

\* PlaceCategory leaving out a category whose parent is not in the list
PlaceCategoryDropsDangling(tree, cat) ==
  IF cat.parent # Null
  THEN IF cat.parent \in DOMAIN tree.children
       THEN [tree EXCEPT !.children[cat.parent] = Append(@, cat.id)]
       ELSE tree
  ELSE [tree EXCEPT !.roots = Append(@, cat.id)]

\* one round of the second pass: the category goes to the children of its
\* parent, or to the roots when it has no parent or one that is not in the map
PlaceCategory(tree, cat) ==
  IF cat.parent # Null
  THEN IF cat.parent \in DOMAIN tree.children
       THEN [tree EXCEPT !.children[cat.parent] = Append(@, cat.id)]
       ELSE [tree EXCEPT !.roots = Append(@, cat.id)]
  ELSE [tree EXCEPT !.roots = Append(@, cat.id)]

\* the forest after n rounds of the second pass; before the first it has no
\* root, and the first pass's entry without children for every category
RECURSIVE SecondPass(_, _)
SecondPass(cats, n) ==
  IF n = 0
  THEN [roots |-> <<>>,
        children |-> [k \in {cats[i].id : i \in DOMAIN cats} |-> <<>>]]
  ELSE PlaceCategory(SecondPass(cats, n - 1), cats[n])

\* the forest buildCategoryTree returns: its roots, and the children of each
\* category, as sequences of ids
BuildCategoryTree(cats) == SecondPass(cats, Len(cats))

\* the flat lists buildCategoryTree is applied to: categories of distinct ids
\* in any order, each with no parent, a parent of the list or one outside it
FlatLists ==
  UNION { { [i \in 1..Cardinality(S) |-> [id |-> ord[i], parent |-> par[ord[i]]]] :
              ord \in {f \in [1..Cardinality(S) -> S] :
                         \A i, j \in 1..Cardinality(S) : i # j => f[i] # f[j]},
              par \in [S -> CategoryIds \cup {Null, "k9"}] } :
          S \in SUBSET CategoryIds }

\* a call of buildCategoryTree
buildCategoryTree(cats) ==
  /\ resp' = Response("buildCategoryTree", cats, 200, BuildCategoryTree(cats))
  /\ UNCHANGED <<products, orders, hist, inflight, started, coupons, banners,
                 categories, users, now>>

SpecTree == InitCoupon /\ [][\E cats \in FlatLists : buildCategoryTree(cats)]_vars

----------------------------------------------------------------------------
(* The category handlers (controllers/categoryController.js) with the       *)
(* product handlers that refer to a category (controllers/authController.js) *)

CreateCategoryBodies ==
  Bodies([name : {"n1", "n2"},
          parent : {"k1", "k2", "k9", Null},
          isActive : {FALSE}],
         {})

\* a PUT carries no name; its parent is an id, or null to make a root
UpdateCategoryBodies ==
  Bodies([parent : {"k1", "k2", "K1", "k9", Null}], {})

CategoryFrame ==
  UNCHANGED <<orders, hist, inflight, started, coupons, banners, users, now>>

createCategory(k, body) ==
  /\ CategoryFrame
  /\ UNCHANGED products
  /\ ~categories[k].exists
  /\ LET cleanParent == IF Has(body, "parent") THEN body.parent ELSE Null
         answer(code, msg) ==
           /\ resp' = Response("createCategory", [id |-> k], code, msg)
           /\ UNCHANGED categories
     IN  IF ~Has(body, "name")
         THEN answer(400, "Category name is required")
         ELSE IF cleanParent # Null /\ FindCategory(categories, cleanParent) = {}
         THEN answer(400, "Invalid parent category ID")
         ELSE IF \E x \in CategoryIds : categories[x].exists /\ categories[x].name = body.name
         THEN answer(400, "Category with this name already exists")
         ELSE /\ categories' =
                   [categories EXCEPT ![k] =
                      [exists |-> TRUE,
                       name |-> body.name,
                       parent |-> IF cleanParent = Null THEN Null ELSE ObjectId(cleanParent),
                       isActive |-> IF Has(body, "isActive") THEN body.isActive ELSE TRUE]]
              /\ resp' = Response("createCategory", [id |-> k], 201,
                                  "Category created successfully")

\* findByIdAndUpdate(id, body): the fields of the body replace the stored ones
UpdatedCategory(old, body) ==
  [old EXCEPT !.parent = IF ~Has(body, "parent") THEN @
                         ELSE IF body.parent = Null THEN Null
                         ELSE ObjectId(body.parent),
              !.isActive = IF Has(body, "isActive") THEN body.isActive ELSE @]

updateCategory(id, body) ==
  /\ CategoryFrame
  /\ UNCHANGED products
  /\ LET req == [id |-> id, body |-> Restrict(body, DOMAIN body \cap {"parent"})]
         answer(code, msg) ==
           /\ resp' = Response("updateCategory", req, code, msg)
           /\ UNCHANGED categories
     IN  IF FindCategory(categories, id) = {}
         THEN answer(404, "Category not found")
         ELSE IF Has(body, "parent") /\ body.parent # Null /\ body.parent = id
         THEN answer(400, "Category cannot be its own parent")
         ELSE IF /\ Has(body, "parent") /\ body.parent # Null
                 /\ FindCategory(categories, body.parent) = {}
         THEN answer(400, "Invalid parent category ID")
         ELSE /\ categories' = [categories EXCEPT ![ObjectId(id)] = UpdatedCategory(@, body)]
              /\ resp' = Response("updateCategory", req, 200, "Category updated successfully")

\* ChildrenCount finding no subcategory
ChildrenCountNone(cats, id) == 0

\* Category.countDocuments({ parent: id })
ChildrenCount(cats, id) ==
  Cardinality({k \in CategoryIds : cats[k].exists /\ cats[k].parent = ObjectId(id)})

\* ProductCount finding no product
ProductCountNone(prods, id) == 0

\* Product.countDocuments({ category: id })
ProductCount(prods, id) ==
  Cardinality({p \in ProductIds : prods[p].exists /\ prods[p].category = ObjectId(id)})

deleteCategory(id) ==
  /\ CategoryFrame
  /\ UNCHANGED products
  /\ LET answer(code, msg) ==
           /\ resp' = Response("deleteCategory", [id |-> id], code, msg)
           /\ UNCHANGED categories
     IN  IF FindCategory(categories, id) = {}
         THEN answer(404, "Category not found")
         ELSE IF ChildrenCount(categories, id) > 0
         THEN answer(400, "Cannot delete category with subcategories")
         ELSE IF ProductCount(products, id) > 0
         THEN answer(400, "Cannot delete category with products")
         ELSE /\ categories' = [categories EXCEPT ![ObjectId(id)] = NoCategory]
              /\ resp' = Response("deleteCategory", [id |-> id], 200,
                                  "Category deleted successfully")

\* Category.find(query).populate('parent').sort({ name: 1 }): the categories
\* the query selects, by name, each with its id and what toString() gives
\* of its populated parent
FoundCategories(cats, query) ==
  LET found == {k \in CategoryIds :
                  /\ cats[k].exists
                  /\ cats[k].parent = (IF query.parent = "" THEN Null
                                       ELSE ObjectId(query.parent))
                  /\ query.isActive # "" => cats[k].isActive = (query.isActive = "true")}
      names == SelectSeq(<<"n1", "n2", "n3">>,
                         LAMBDA n : \E k \in found : cats[k].name = n)
      at(i) == CHOOSE k \in found : cats[k].name = names[i]
      populated(p) == IF p = Null \/ ~cats[p].exists THEN Null
                      ELSE "{ _id: " \o p \o " }"
  IN  [i \in DOMAIN names |-> [id |-> at(i), parent |-> populated(cats[at(i)].parent)]]

getAllCategories(query) ==
  /\ CategoryFrame
  /\ UNCHANGED <<products, categories>>
  /\ LET found == FoundCategories(categories, query)
     IN  resp' = Response("getAllCategories", query, 200,
                          IF query.nested = "true"
                          THEN BuildCategoryTree(found)
                          ELSE [roots |-> [i \in DOMAIN found |-> found[i].id],
                                children |-> <<>>])

createProduct(p, body) ==
  /\ CategoryFrame
  /\ UNCHANGED categories
  /\ ~products[p].exists
  /\ LET answer(code, msg) ==
           /\ resp' = Response("createProduct", [product |-> p], code, msg)
           /\ UNCHANGED products
     IN  IF ~Has(body, "category")
         THEN answer(400, "Name, SKU, original price, and category are required fields")
         ELSE IF FindCategory(categories, body.category) = {}
         THEN answer(400, "Invalid category ID")
         ELSE IF \E x \in ProductIds : products[x].exists /\ products[x].sku = ToUpperCase(body.sku)
         THEN answer(400, "Product with this SKU already exists")
         ELSE IF ~Has(body, "images")
         THEN answer(400, "At least one product image/file is required")
         ELSE /\ products' =
                   [products EXCEPT ![p] =
                      [exists |-> TRUE, stock |-> 0, inStock |-> TRUE,
                       sku |-> ToUpperCase(body.sku),
                       category |-> ObjectId(body.category)]]
              /\ resp' = Response("createProduct", [product |-> p], 201,
                                  "Product created successfully")

\* the requests: the queries of a GET give parent, isActive and nested, a
\* POST of a product its required fields and at most a category and a file, a
\* PUT of a product a category
NextCategory ==
  \/ \E k \in CategoryIds, body \in CreateCategoryBodies : createCategory(k, body)
  \/ \E id \in CategoryIds, body \in UpdateCategoryBodies : updateCategory(id, body)
  \/ \E id \in CategoryIds : deleteCategory(id)
  \/ \E query \in [parent : {"", "k1"}, isActive : {"", "true"},
                   nested : {"true", "false"}] :
       getAllCategories(query)
  \/ \E body \in Bodies([name : {"shirt"}, sku : {"a1"}, originalPrice : {10},
                         category : {"K1", "k9"}, images : {"img"}],
                        {"name", "sku", "originalPrice"}) :
       createProduct("p1", body)
  \/ \E body \in Bodies([category : {"k2", "k9"}], {}) :
       updateProduct("p1", body) /\ UNCHANGED hist

InitCategory ==
  /\ products = [p \in ProductIds |-> NoProduct]
  /\ orders = [o \in OrderIds |-> FreeOrder]
  /\ resp = NoResponse
  /\ hist = [o \in OrderIds |-> NoHistory]
  /\ inflight = [r \in Reqs |-> IdleReq]
  /\ started = 0
  /\ coupons = [c \in CouponIds |-> NoCoupon]
  /\ banners = [b \in BannerIds |-> NoBanner]
  /\ categories = [k \in CategoryIds |-> NoCategory]
  /\ users = [u \in UserIds |-> NoUser]
  /\ now = OrderNow

SpecCategory == InitCategory /\ [][NextCategory]_vars

----------------------------------------------------------------------------
(* The order handlers on a negative quantity and on the delivery date 0,   *)
(* the number of the first instant of the clock                            *)

SpecEdge ==
  Init /\ [][/\ UNCHANGED hist
              /\ \/ \E body \in Bodies([orderNumber : OrderNumberInputs,
                                        product : {"p1"},
                                        quantity : {Num(-1, FALSE), Num(1, FALSE)},
                                        deliveryDate : {0} \cup DeliveryInputs],
                                       {"orderNumber", "quantity"}) :
                     createOrder("o1", body)
                 \/ \E body \in Bodies([status : {"cancelled", "completed"},
                                        deliveryDate : {0} \cup DeliveryInputs],
                                       {}) :
                     updateOrder("o1", body)
                 \/ deleteOrder("o1")]_vars

----------------------------------------------------------------------------
(* Users: signup and the customer handlers.  A role in a request body is   *)
(* a JSON value [type, v]: a string v, or an object whose _id is v (Null    *)
(* when the object has no _id).                                            *)

\* email.toLowerCase()
ToLowerCase(s) ==
  CASE s = "A@x.io" -> "a@x.io"
    [] s = "R@x.io" -> "r@x.io"
    [] OTHER -> s

\* the schema's cast of a value to its String type: a string is kept, an
\* object with a string _id is cast to that _id, another object is an error
CastString(value) ==
  IF value.type = "string" THEN value.v
  ELSE IF value.v # Null THEN value.v
  ELSE "CastError"

signup(u, body) ==
  /\ UNCHANGED <<products, orders, hist, inflight, started, coupons, banners, categories, now>>
  /\ ~users[u].exists
  /\ LET answer(code, msg) ==
           /\ resp' = Response("signup", [id |-> u], code, msg)
           /\ UNCHANGED users
         customer == [type |-> "string", v |-> "customer"]
         userRole ==
           IF ~Has(body, "role") THEN customer
           ELSE IF body.role = [type |-> "string", v |-> "admin"] THEN customer
           ELSE IF body.role = [type |-> "string", v |-> ""] THEN customer
           ELSE body.role
         role == CastString(userRole)
     IN  IF ~Has(body, "name") \/ ~Has(body, "email") \/ ~Has(body, "password")
         THEN answer(400, "Name, email, and password are required")
         ELSE IF \E x \in UserIds :
                   users[x].exists /\ users[x].email = ToLowerCase(body.email)
         THEN answer(400, "User with this email already exists")
         ELSE IF role \notin {"customer", "admin"}
         THEN answer(400, "Failed to register user")
         ELSE /\ users' = [users EXCEPT ![u] =
                             [exists |-> TRUE, email |-> ToLowerCase(body.email),
                              role |-> role, name |-> body.name]]
              /\ resp' = Response("signup", [id |-> u], 201, [userRole |-> role])

getCustomerById(u) ==
  /\ UNCHANGED <<products, orders, hist, inflight, started, coupons, banners, categories, now>>
  /\ UNCHANGED users
  /\ resp' = IF ~users[u].exists \/ users[u].role # "customer"
             THEN Response("getCustomerById", [id |-> u], 404, "Customer not found")
             ELSE Response("getCustomerById", [id |-> u], 200, users[u])

updateCustomer(u, body) ==
  /\ UNCHANGED <<products, orders, hist, inflight, started, coupons, banners, categories, now>>
  /\ LET answer(code, msg) ==
           /\ resp' = Response("updateCustomer", [id |-> u], code, msg)
           /\ UNCHANGED users
         updated ==
           [users[u] EXCEPT
              !.name = IF Has(body, "name") THEN body.name ELSE @,
              !.email = IF Has(body, "email") THEN ToLowerCase(body.email) ELSE @]
     IN  IF ~users[u].exists \/ users[u].role # "customer"
         THEN answer(404, "Customer not found")
         ELSE IF \E x \in UserIds \ {u} :
                   users[x].exists /\ users[x].email = updated.email
         THEN answer(400, "Failed to update customer")
         ELSE /\ users' = [users EXCEPT ![u] = updated]
              /\ resp' = Response("updateCustomer", [id |-> u], 200,
                                  "Customer updated successfully")

deleteCustomer(u) ==
  /\ UNCHANGED <<products, orders, hist, inflight, started, coupons, banners, categories, now>>
  /\ IF ~users[u].exists
     THEN /\ resp' = Response("deleteCustomer", [id |-> u], 404, "Customer not found")
          /\ UNCHANGED users
     ELSE /\ users' = [users EXCEPT ![u] = NoUser]
          /\ resp' = Response("deleteCustomer", [id |-> u], 200,
                              "Customer deleted successfully")

\* the handlers on a database that holds one administrator
SpecUser ==
  /\ products = [p \in ProductIds |-> NoProduct]
  /\ orders = [o \in OrderIds |-> FreeOrder]
  /\ resp = NoResponse
  /\ hist = [o \in OrderIds |-> NoHistory]
  /\ inflight = [r \in Reqs |-> IdleReq]
  /\ started = 0
  /\ coupons = [c \in CouponIds |-> NoCoupon]
  /\ banners = [b \in BannerIds |-> NoBanner]
  /\ categories = [k \in CategoryIds |-> NoCategory]
  /\ users = [u \in UserIds |->
                IF u = "u1"
                THEN [exists |-> TRUE, email |-> "r@x.io", role |-> "admin", name |-> "root"]
                ELSE NoUser]
  /\ now = OrderNow
  /\ [][\E u \in UserIds :
          \/ \E body \in Bodies([name : {"ann"},
                                 email : {"a@x.io", "A@x.io", "r@x.io"},
                                 password : {"secret"},
                                 role : [type : {"string"},
                                         v : {"admin", "customer", "manager", ""}]
                                        \cup [type : {"object"}, v : {"admin", Null}]],
                                {"name", "email"}) :
                signup(u, body)
          \/ getCustomerById(u)
          \/ \E body \in Bodies([name : {"bob"}, email : {"R@x.io", "a@x.io"}], {}) :
                updateCustomer(u, body)
          \/ deleteCustomer(u)]_vars

----------------------------------------------------------------------------
(* Properties of the stock reconciliation *)

\* the request the last response answers passed createOrder's checks of its
\* required fields and delivery date
PassedCreateChecks(r) ==
  r.msg \notin {"Missing required fields", "Delivery date must be today or a future date"}

\* stock is less than the number q, computed on doubled values (a tiny number
\* lies between 0 and one half)
StockBelow(stock, q) ==
  2 * stock < (IF q.tiny THEN 0 ELSE 2 * q.int) + (IF q.half \/ q.tiny THEN 1 ELSE 0)

\* the number q is the integer n
IsInteger(q, n) == ~q.half /\ ~q.tiny /\ q.int = n

OtherProductsUnchanged(p) ==
  \A x \in ProductIds \ {p} : products'[x] = products[x]

\* C2: createOrder of a product: a missing product answers 404 and a stock
\* less than the quantity answers 400, both leaving every order and every
\* product as they were; otherwise the product's stock decreases by exactly
\* the quantity and no other product changes.
C2_CreateOrderReserves ==
  [][(resp'.op = "createOrder" /\ PassedCreateChecks(resp') /\ resp'.req.product # Null) =>
       LET p == resp'.req.product
           q == resp'.req.quantity
       IN IF ~products[p].exists
            THEN resp'.code = 404 /\ orders' = orders /\ products' = products
          ELSE IF StockBelow(products[p].stock, q)
            THEN resp'.code = 400 /\ orders' = orders /\ products' = products
          ELSE /\ IsInteger(q, products[p].stock - products'[p].stock)
               /\ OtherProductsUnchanged(p)]_vars

\* C3: for an order that refers to a stored product, updateOrder releases iff
\* the request sets status 'cancelled' and the stored status is not
\* 'cancelled', deleteOrder iff the stored status is neither 'cancelled' nor
\* 'completed'; a release adds the order's stored quantity to that product's
\* stock and sets inStock, and in every other case no product changes.
C3_ReleaseCases ==
  [][\A o \in OrderIds :
       LET old == orders[o]
           p == old.product
           hasProduct == p # Null /\ products[p].exists
           released == [products EXCEPT ![p] = ProductDoc(@.stock + old.quantity, TRUE)]
       IN
       /\ (/\ resp'.op = "updateOrder"
           /\ resp'.req.order = o
           /\ old.st = "stored"
           /\ resp'.msg # "Delivery date must be today or a future date") =>
            IF resp'.req.status = "cancelled" /\ old.status # "cancelled" /\ hasProduct
              THEN products' = released
              ELSE products' = products
       /\ (resp'.op = "deleteOrder" /\ resp'.req.order = o /\ old.st = "stored") =>
            IF old.status \notin {"cancelled", "completed"} /\ hasProduct
              THEN products' = released
              ELSE products' = products]_vars

\* the order of quantity 4 was cancelled and the stock it left at 1 is 5
C3_Witness ==
  /\ resp.op = "updateOrder"
  /\ resp.req.status = "cancelled"
  /\ resp.code = 200
  /\ orders["o1"].status = "cancelled"
  /\ orders["o1"].quantity = 4
  /\ orders["o1"].product = "p1"
  /\ products["p1"] = ProductDoc(5, TRUE)

\* C4: the stock release of an order is applied at most once.
C4_ReleaseAtMostOnce ==
  \A o \in OrderIds : hist[o].releases <= 1

\* the first cancellation of order o, or its deletion while it is neither
\* cancelled nor completed, happens in this step
CancelledOrDeletedNow(o) ==
  \/ /\ resp'.op = "updateOrder"
     /\ resp'.req.order = o
     /\ resp'.code = 200
     /\ orders[o].status # "cancelled"
     /\ orders'[o].status = "cancelled"
  \/ /\ resp'.op = "deleteOrder"
     /\ resp'.req.order = o
     /\ resp'.code = 200
     /\ orders[o].status \notin {"cancelled", "completed"}

\* C5: when an order created against a product is cancelled, or deleted while
\* neither cancelled nor completed, and no other request wrote that product's
\* stock in between, the stock is back at its value before the order.
C5_RoundTrip ==
  [][\A o \in OrderIds :
       (/\ orders[o].st = "stored"
        /\ hist[o].product # Null
        /\ hist[o].alone
        /\ hist[o].releases = 0
        /\ CancelledOrDeletedNow(o))
       => products'[hist[o].product].stock = hist[o].base]_vars

\* C7: no rollback.  When createOrder's insert fails after the product was
\* saved, the stock stays decremented and no order is added; when the update
\* of an updateOrder to 'cancelled' fails after the product was saved, the
\* stock stays incremented and the order keeps its stored fields.
C7_NoRollback ==
  [][/\ (/\ resp'.op = "createOrder"
         /\ resp'.msg = "Failed to create order"
         /\ resp'.req.product # Null) =>
          /\ orders' = orders
          /\ products'[resp'.req.product].stock =
               products[resp'.req.product].stock - ParseInt(resp'.req.quantity)
     /\ \A o \in OrderIds :
          (/\ resp'.op = "updateOrder"
           /\ resp'.req.order = o
           /\ resp'.msg = "Failed to update order"
           /\ resp'.req.status = "cancelled"
           /\ orders[o].status # "cancelled"
           /\ orders[o].product # Null
           /\ products[orders[o].product].exists) =>
            /\ orders' = orders
            /\ products'[orders[o].product].stock =
                 products[orders[o].product].stock + orders[o].quantity]_vars

\* an order of two of product p1 failed at the insert, the stored order has
\* the same number, and the stock is two less than the order left it
C7_Witness ==
  /\ resp.op = "createOrder"
  /\ resp.msg = "Failed to create order"
  /\ resp.req.product = "p1"
  /\ resp.req.quantity = Num(2, FALSE)
  /\ orders["o1"].st = "stored"
  /\ orders["o1"].product = "p1"
  /\ orders["o1"].quantity = 1
  /\ orders["o1"].status = "pending"
  /\ products["p1"].stock = MaxStock - 3

StockChanged(p) ==
  /\ products[p].exists
  /\ products'[p].exists
  /\ products'[p].stock # products[p].stock

\* C8: after every operation that changes a product's stock, inStock is
\* false if the stock is 0 and true if it is greater than 0.
C8_InStockFollowsStock ==
  [][\A p \in ProductIds :
       StockChanged(p) => (products'[p].inStock <=> products'[p].stock > 0)]_vars

\* C9 as stated: only createOrder, updateOrder and deleteOrder change the
\* stock of a stored product.
C9_OnlyOrdersWriteStock ==
  [][\A p \in ProductIds :
       StockChanged(p) => resp'.op \in {"createOrder", "updateOrder", "deleteOrder"}]_vars

\* C9 amended: an existing product's stock changes only in a createOrder of
\* that product (by its whole quantity), in an updateOrder to 'cancelled' or
\* a deleteOrder of an order of that product (by the order's quantity), and
\* in an updateProduct whose body carries a stock (to that value).
C9_StockWriters ==
  [][\A p \in ProductIds :
       StockChanged(p) =>
         \/ /\ resp'.op = "createOrder"
            /\ resp'.req.product = p
            /\ products'[p].stock = products[p].stock - ParseInt(resp'.req.quantity)
         \/ /\ resp'.op = "updateOrder"
            /\ resp'.req.status = "cancelled"
            /\ orders[resp'.req.order].product = p
            /\ products'[p].stock = products[p].stock + orders[resp'.req.order].quantity
         \/ /\ resp'.op = "deleteOrder"
            /\ orders[resp'.req.order].product = p
            /\ products'[p].stock = products[p].stock + orders[resp'.req.order].quantity
         \/ /\ resp'.op = "updateProduct"
            /\ resp'.req.product = p
            /\ resp'.req.stock = {products'[p].stock}]_vars

\* updateProduct set the stock of p1 to 3 while an order of p1 is stored
C9_Witness ==
  /\ resp.op = "updateProduct"
  /\ resp.code = 200
  /\ resp.req = [product |-> "p1", stock |-> {3}]
  /\ products["p1"].stock = 3
  /\ orders["o1"].st = "stored"
  /\ orders["o1"].product = "p1"
  /\ orders["o1"].quantity = 1

\* C1: whatever the interleaving of createOrder, updateOrder and deleteOrder
\* requests, the stock of every product is at least 0.
C1_StockNeverNegative ==
  \A p \in ProductIds : products[p].exists => products[p].stock >= 0

\* C6: a createOrder that has loaded the product and passed the stock check
\* saves the stock it computed from what it loaded, whatever was written to
\* the product since, and then creates its order; so two requests that load
\* the same stock both succeed.
C6_RacingReserve ==
  /\ [](\A r \in Reqs :
          At(r, "co_save") =>
            ~StockBelow(inflight[r].loaded.stock, inflight[r].body.quantity))
  /\ [][\A r \in Reqs :
          /\ (At(r, "co_save") /\ inflight'[r].pc = "co_create") =>
               products'[inflight[r].product].stock =
                 inflight[r].loaded.stock - ParseInt(inflight[r].body.quantity)
          /\ (/\ At(r, "co_create")
              /\ inflight'[r].pc = "idle"
              /\ ~NumberTaken(orders, ToUpperCase(inflight[r].body.orderNumber), {})) =>
               /\ resp'.code = 201
               /\ \E o \in OrderIds :
                    /\ orders[o].st = "free"
                    /\ orders'[o].st = "stored"
                    /\ orders'[o].quantity = ParseInt(inflight[r].body.quantity)]_vars

\* oversold: two stored orders of one product, neither released, were both
\* created from the same loaded stock, the save of one overwrote the other's,
\* and their quantities add up to more than that stock
C6_Witness ==
  \E o1, o2 \in OrderIds :
    /\ o1 # o2
    /\ orders[o1].st = "stored" /\ orders[o2].st = "stored"
    /\ orders[o1].status = "pending" /\ orders[o2].status = "pending"
    /\ orders[o1].product = "p1" /\ orders[o2].product = "p1"
    /\ hist[o1].releases = 0 /\ hist[o2].releases = 0
    /\ hist[o1].base = hist[o2].base
    /\ hist[o2].lost
    /\ orders[o1].quantity + orders[o2].quantity > hist[o1].base
    /\ products["p1"].stock = hist[o2].base - orders[o2].quantity

----------------------------------------------------------------------------
(* Properties of the coupons *)

\* the instant validityDays days after startDate
EndOf(doc) ==
  AddDays(doc.startDate, doc.validityDays.int)
    + (IF doc.validityDays.half THEN TicksPerDay \div 2 ELSE 0)

\* C10: every stored coupon has endDate = startDate + validityDays days
\* after any sequence of createCoupon and updateCoupon requests.
C10_EndDateFollows ==
  \A c \in CouponIds : coupons[c].exists => coupons[c].endDate = EndOf(coupons[c])

\* C11: isValid() at the instant now is true iff startDate <= now <= endDate,
\* the status is 'active', and the coupon has no usage limit or usedCount is
\* below it.
C11_IsValid ==
  resp.op = "isValid" =>
    LET doc == coupons[resp.req.coupon]
        t == resp.req.at
    IN  (resp.msg = "true") <=>
          /\ doc.startDate <= t /\ t <= doc.endDate
          /\ doc.status = "active"
          /\ \A n \in doc.usageLimit : doc.usedCount < n

\* the step is a handler's or a method's, not the clock's
HandlerStep == now' = now

\* no two stored coupons have the same code, ignoring case
UniqueCodes ==
  \A c, d \in CouponIds :
    (c # d /\ coupons[c].exists /\ coupons[d].exists) =>
      ToUpperCase(coupons[c].code) # ToUpperCase(coupons[d].code)

\* C12: createCoupon answers 400 and creates no coupon when the discount is
\* outside [0,100], when validityDays is less than 1, or when a coupon with
\* the same code ignoring case is stored; and no two stored coupons have
\* codes that are equal ignoring case.
C12_CreateCouponValidates ==
  /\ []UniqueCodes
  /\ [][(HandlerStep /\ resp'.op = "createCoupon"
            /\ Has(resp'.req.body, "validityDays")) =>
          LET body == resp'.req.body
          IN  (\/ DiscountRejected(body.discount)
               \/ BelowOne(body.validityDays)
               \/ CodeTaken(coupons, ToUpperCase(body.code), {})) =>
                (resp'.code = 400 /\ coupons' = coupons)]_vars

\* C13: getCouponByCode of a coupon whose endDate is before now stores the
\* status 'expired' and answers with an error; and a status 'expired' changes
\* only in an updateCoupon whose body carries a status.
C13_LazyExpiry ==
  /\ [][\A c \in CouponIds :
          (/\ HandlerStep
           /\ resp'.op = "getCouponByCode"
           /\ resp'.req.coupon = c
           /\ coupons[c].endDate < now) =>
            (coupons'[c].status = "expired" /\ resp'.code >= 400)]_vars
  /\ [][\A c \in CouponIds :
          (/\ coupons[c].exists
           /\ coupons[c].status = "expired"
           /\ coupons'[c].status # "expired") =>
            (/\ resp'.op = "updateCoupon"
             /\ resp'.req.coupon = c
             /\ Has(resp'.req.body, "status"))]_vars

\* C14: the usedCount of every coupon is at least 0 and never decreases.
C14_UsedCountMonotone ==
  /\ [](\A c \in CouponIds : coupons[c].usedCount >= 0)
  /\ [][\A c \in CouponIds :
          (coupons[c].exists /\ coupons'[c].exists) =>
            coupons'[c].usedCount >= coupons[c].usedCount]_vars

\* C15: an updateCoupon of a stored coupon whose body gives a discount
\* outside [0,100] or a validityDays below 1 answers 400 and leaves every
\* field of every coupon as it was.
C15_UpdateCouponAllOrNothing ==
  [][(HandlerStep /\ resp'.op = "updateCoupon" /\ coupons[resp'.req.coupon].exists) =>
       LET body == resp'.req.body
       IN  (\/ Has(body, "discount") /\ DiscountRejected(body.discount)
            \/ Has(body, "validityDays") /\ BelowOne(body.validityDays)) =>
             (resp'.code = 400 /\ coupons' = coupons)]_vars

\* an update giving validityDays 2e-7 and a startDate was refused, and the
\* coupon still has the endDate of its creation
C15_Witness ==
  /\ resp.op = "updateCoupon"
  /\ resp.code = 400
  /\ resp.req.body = [validityDays |-> Tiny(2)]
  /\ coupons[resp.req.coupon].exists
  /\ coupons[resp.req.coupon].validityDays = Num(1, FALSE)
  /\ coupons[resp.req.coupon].endDate = AddDays(coupons[resp.req.coupon].startDate, 1)

----------------------------------------------------------------------------
(* Properties of the banners *)

\* the classification of the instant t against the window from s to e
Classified(t, s, e) ==
  IF t < s THEN "pending" ELSE IF t <= e THEN "active" ELSE "expired"

\* the last response is a successful write of banner b by createBanner or
\* updateBanner
BannerWritten(r, b) ==
  /\ r.op \in {"createBanner", "updateBanner"}
  /\ r.code \in {200, 201}
  /\ r.req.banner = b

\* C16: after every successful createBanner and updateBanner the stored
\* status of the banner is the classification of now against its startDate
\* and endDate ('pending' before startDate, 'active' within the window,
\* 'expired' past endDate), unless the stored status is 'inactive'.
C16_StatusClassified ==
  [][\A b \in BannerIds :
       (HandlerStep /\ BannerWritten(resp', b) /\ banners'[b].status # "inactive") =>
         banners'[b].status =
           Classified(now', banners'[b].startDate, banners'[b].endDate)]_vars

\* the place of a status in the order pending, active, expired
StatusRank(st) ==
  CASE st = "pending" -> 0
    [] st = "active" -> 1
    [] OTHER -> 2

\* C17: a run of the banner's save hook leaves a status 'inactive' or
\* 'expired' as it is, changes a status only from 'pending' to 'active' or
\* from 'active' to 'expired', never moves it backwards in that order, and
\* run again at the same instant leaves the status it has just written.
C17_HookTransitions ==
  [][\A b \in BannerIds :
       (HandlerStep /\ resp'.op = "preSave" /\ resp'.req.banner = b) =>
         LET old == banners[b].status
             new == banners'[b].status
         IN  /\ old \in {"inactive", "expired"} => new = old
             /\ new # old =>
                  <<old, new>> \in {<<"pending", "active">>, <<"active", "expired">>}
             /\ old # "inactive" => StatusRank(new) >= StatusRank(old)
             /\ BannerPreSave(banners'[b], now).status = new]_vars

\* a save has just moved an active banner past its endDate to 'expired'
C17_Witness ==
  /\ resp.op = "preSave"
  /\ resp.req.was = "active"
  /\ banners[resp.req.banner].status = "expired"
  /\ banners[resp.req.banner].endDate < resp.req.at

\* C18: a banner a successful createBanner has stored has status 'pending'
\* or 'active', never 'expired', unless the request supplied another status
\* and that status is stored as supplied.
C18_NeverCreatedExpired ==
  [][\A b \in BannerIds :
       (HandlerStep /\ resp'.op = "createBanner" /\ resp'.code = 201
          /\ resp'.req.banner = b) =>
         \/ banners'[b].status \in {"pending", "active"}
         \/ /\ Has(resp'.req.body, "status")
            /\ banners'[b].status = resp'.req.body.status]_vars

\* the instant a number of days after t, on doubled ticks so that half a
\* day counts
TwiceEndAfter(t, q) ==
  2 * t + 2 * q.int * TicksPerDay + (IF q.half THEN TicksPerDay ELSE 0)

\* C19: createBanner stores endDate = startDate + days; updateBanner stores
\* endDate = startDate + days when the request has both startDate and days,
\* and leaves the stored endDate as it is when the request has only one of
\* the two.
C19_EndDateRecomputed ==
  [][\A b \in BannerIds :
       LET body == resp'.req.body
           new == banners'[b]
       IN  /\ (HandlerStep /\ resp'.op = "createBanner" /\ resp'.code = 201
                  /\ resp'.req.banner = b) =>
                2 * new.endDate = TwiceEndAfter(new.startDate, new.days)
           /\ (HandlerStep /\ resp'.op = "updateBanner" /\ resp'.code = 200
                  /\ resp'.req.banner = b) =>
                /\ (Has(body, "startDate") /\ Has(body, "days")) =>
                     2 * new.endDate = TwiceEndAfter(new.startDate, new.days)
                /\ (Has(body, "startDate") # Has(body, "days")) =>
                     new.endDate = banners[b].endDate]_vars

\* C20: for a banner with startDate <= endDate, currentStatus is 'pending'
\* exactly when now is before startDate, 'active' exactly when now is
\* from startDate to endDate, and 'expired' exactly when now is past endDate.
C20_CurrentStatus ==
  [][\A b \in BannerIds :
       (HandlerStep /\ resp'.op = "currentStatus" /\ resp'.req.banner = b
          /\ banners[b].startDate <= banners[b].endDate) =>
         LET s == banners[b].startDate
             e == banners[b].endDate
         IN  /\ resp'.msg = "pending" <=> now < s
             /\ resp'.msg = "active" <=> (s <= now /\ now <= e)
             /\ resp'.msg = "expired" <=> now > e]_vars

\* currentStatus has answered 'active' for a banner that started a day
\* before and ends a day after the instant of the read
C20_Witness ==
  /\ resp.op = "currentStatus"
  /\ banners[resp.req.banner].startDate = resp.req.at - TicksPerDay
  /\ banners[resp.req.banner].endDate = resp.req.at + TicksPerDay
  /\ resp.msg = "active"

----------------------------------------------------------------------------
(* Properties of the categories *)

\* the ids of the categories of a list, and the parent the list gives each
ListIds(cats) == {cats[i].id : i \in DOMAIN cats}
ListParent(cats) ==
  [k \in ListIds(cats) |-> cats[CHOOSE i \in DOMAIN cats : cats[i].id = k].parent]

\* following parentOf from a category for at most n steps reaches id
RECURSIVE ReturnsTo(_, _, _, _)
ReturnsTo(parentOf, from, id, n) ==
  /\ n > 0
  /\ from \in DOMAIN parentOf
  /\ \/ parentOf[from] = id
     \/ ReturnsTo(parentOf, parentOf[from], id, n - 1)

\* no category is its own ancestor
Acyclic(parentOf) ==
  \A k \in DOMAIN parentOf : ~ReturnsTo(parentOf, k, k, Cardinality(DOMAIN parentOf))

\* the ids of the list's categories that are in S, in the order of the list
InListOrder(cats, S) ==
  LET sel == SelectSeq(cats, LAMBDA c : c.id \in S)
  IN  [i \in DOMAIN sel |-> sel[i].id]

\* the categories of a forest as they are met going down from the sequence
\* ids, at most n levels deep
RECURSIVE Walk(_, _, _)
Walk(tree, ids, n) ==
  IF ids = <<>> \/ n = 0 THEN <<>>
  ELSE <<Head(ids)>> \o Walk(tree, tree.children[Head(ids)], n - 1)
         \o Walk(tree, Tail(ids), n)

\* C21: buildCategoryTree of a flat list with distinct ids and no cycle of
\* parents returns a forest in which every category of the list appears
\* exactly once: among the children of its parent, in the order of the list,
\* when its parent is in the list, and among the roots, in the order of the
\* list, when it has no parent or one that is not in the list.
C21_TreeComplete ==
  (resp.op = "buildCategoryTree" /\ Acyclic(ListParent(resp.req))) =>
    LET cats == resp.req
        tree == resp.msg
        ids == ListIds(cats)
        parentOf == ListParent(cats)
        met == Walk(tree, tree.roots, Len(cats))
    IN  /\ Len(met) = Len(cats)
        /\ \A k \in ids : \E i \in DOMAIN met : met[i] = k
        /\ tree.roots = InListOrder(cats, {k \in ids : parentOf[k] \notin ids})
        /\ \A p \in ids :
             tree.children[p] = InListOrder(cats, {k \in ids : parentOf[k] = p})

\* the list [{k1, no parent}, {k2, parent k1}, {k3, parent k9}] has given the
\* roots k1, k3 and k2 as the only child of k1
C21_Witness ==
  /\ resp.op = "buildCategoryTree"
  /\ resp.req = <<[id |-> "k1", parent |-> Null], [id |-> "k2", parent |-> "k1"],
                  [id |-> "k3", parent |-> "k9"]>>
  /\ resp.msg.roots = <<"k1", "k3">>
  /\ resp.msg.children["k1"] = <<"k2">>

\* a stored category whose parent is the category k, and a stored product of k
HasChild(k) ==
  \E x \in CategoryIds : categories[x].exists /\ categories[x].parent = k
HasProductOf(k) ==
  \E p \in ProductIds : products[p].exists /\ products[p].category = k

\* C22: deleteCategory of a stored category that has a child category or a
\* product answers 400 and leaves every category and every product as it
\* was; of one that has neither, it deletes the category.
C22_DeleteCategoryGuarded ==
  [][(/\ HandlerStep
      /\ resp'.op = "deleteCategory"
      /\ categories[ObjectId(resp'.req.id)].exists) =>
       LET k == ObjectId(resp'.req.id)
       IN  IF HasChild(k) \/ HasProductOf(k)
           THEN resp'.code = 400 /\ categories' = categories /\ products' = products
           ELSE resp'.code = 200 /\ ~categories'[k].exists]_vars

\* the deletion of a category that has a subcategory was refused, and the
\* deletion of one that has a product
C22_Witness ==
  /\ resp.op = "deleteCategory"
  /\ resp.code = 400
  /\ categories[ObjectId(resp.req.id)].exists
  /\ HasChild(ObjectId(resp.req.id)) \/ HasProductOf(ObjectId(resp.req.id))

\* C23: no stored category has itself as its parent.
C23_NoSelfParent ==
  \A k \in CategoryIds : categories[k].exists => categories[k].parent # k

\* the parent of every stored category that has one
StoredParent ==
  [k \in {x \in CategoryIds : categories[x].exists /\ categories[x].parent # Null} |->
     categories[k].parent]

\* C24: the parents of the stored categories form a forest: following the
\* parents from a category never comes back to that category.
C24_ParentsAcyclic == Acyclic(StoredParent)

\* C26: getAllCategories with nested=true answers with a nested structure:
\* every stored category whose parent is stored and is in the answer is in
\* the answer among the children of its parent, and not among the roots.
C26_NestedAnswer ==
  [][(HandlerStep /\ resp'.op = "getAllCategories" /\ resp'.req.nested = "true") =>
       LET tree == resp'.msg
       IN  \A k \in CategoryIds :
             (/\ categories[k].exists
              /\ categories[k].parent # Null
              /\ categories[k].parent \in DOMAIN tree.children) =>
               /\ \E i \in DOMAIN tree.children[categories[k].parent] :
                    tree.children[categories[k].parent][i] = k
               /\ \A i \in DOMAIN tree.roots : tree.roots[i] # k]_vars

----------------------------------------------------------------------------
(* Properties of the order handlers' inputs *)

\* C25: a createOrder or updateOrder whose delivery date is before the start
\* of today answers 400 and changes no product and no order.
C25_EarlyDeliveryRejected ==
  [][(resp'.op \in {"createOrder", "updateOrder"} /\ resp'.req.early) =>
       (resp'.code = 400 /\ products' = products /\ orders' = orders)]_vars

\* C28: createOrder never increases the stock of any product.
C28_CreateOrderNeverAddsStock ==
  [][resp'.op = "createOrder" =>
       \A p \in ProductIds : products'[p].stock <= products[p].stock]_vars

----------------------------------------------------------------------------
(* Properties of the users *)

\* C27: signup never creates an administrator: whatever role the body
\* carries, the user a successful signup stores has role 'customer', and so
\* has the session it opens
C27_SignupCreatesCustomer ==
  [][(resp'.op = "signup" /\ resp'.code = 201) =>
       /\ users'[resp'.req.id].role = "customer"
       /\ resp'.msg.userRole = "customer"]_vars

\* C30: getCustomerById, updateCustomer and deleteCustomer on the id of a
\* stored user whose role is not 'customer' answer 404 and leave that user
\* stored and unchanged
C30_OtherRolesUntouched ==
  [][\A u \in UserIds :
       (/\ resp'.op \in {"getCustomerById", "updateCustomer", "deleteCustomer"}
        /\ resp'.req.id = u
        /\ users[u].exists
        /\ users[u].role # "customer") =>
         (resp'.code = 404 /\ users'[u] = users[u])]_vars

====
